---- MODULE Spec2Model ----
(***************************************************************************)
(* pino-coralogix: the BatchAccumulator (batch.js), the transport built    *)
(* around it (index.js: buildTransport) and the record transformation      *)
(* (transform.js).                                                         *)
(*                                                                         *)
(* JavaScript runs one synchronous piece of code at a time; an async       *)
(* function runs synchronously up to its first await that has to wait.     *)
(* Every action below is one such piece: the synchronous part of a call,   *)
(* or the continuation that runs when an awaited promise settles.          *)
(***************************************************************************)
EXTENDS Integers, Sequences, FiniteSets, TLC

(***************************************************************************)
(* Bounds of the model.                                                    *)
(***************************************************************************)
\* records the owner of a bare accumulator passes to add() in one run
MaxRecords == 2
\* lines the transport reads from the source stream in one run
MaxLines == 3
\* flush()/stop() calls the owner of a bare accumulator makes in one run
MaxCalls == 2

\* flush() calls issued back to back in one synchronous piece of code, as in
\* the test of concurrent flushes
FlushBurst == 3

Null == 0

RECURSIVE Repeat(_, _)
\* 'x'.repeat(n)
Repeat(s, n) == IF n = 0 THEN "" ELSE s \o Repeat(s, n - 1)

(***************************************************************************)
(* JavaScript values, given with their type: numbers and strings of a log  *)
(* as it comes out of JSON.parse or of the tests, undefined for a property *)
(* the log does not have, and objects as the sequence of their members.    *)
(***************************************************************************)
Undefined == [type |-> "undefined"]
NullValue == [type |-> "null"]
Num(n) == [type |-> "number", value |-> n]
Str(s) == [type |-> "string", value |-> s]
Bool(b) == [type |-> "boolean", value |-> b]
\* members: a sequence of [key |-> a string, val |-> a value]
Obj(members) == [type |-> "object", value |-> members]

\* String(v) for a value that is no object
String(v) ==
    CASE v.type = "undefined" -> "undefined"
      [] v.type = "null" -> "null"
      [] v.type = "number" -> ToString(v.value)
      [] v.type = "boolean" -> (IF v.value THEN "true" ELSE "false")
      [] v.type = "string" -> v.value

\* the values that count as false in a condition
Falsey(v) ==
    \/ v.type \in {"undefined", "null"}
    \/ v.type = "number" /\ v.value = 0
    \/ v.type = "string" /\ v.value = ""
    \/ v.type = "boolean" /\ ~v.value

RECURSIVE JsonText(_)
RECURSIVE JsonMembersText(_)
\* JSON.stringify(v) for a number, a boolean, null, a string without
\* characters to escape, or an object of such values
JsonText(v) ==
    CASE v.type = "string" -> "\"" \o v.value \o "\""
      [] v.type = "object" -> "{" \o JsonMembersText(v.value) \o "}"
      [] OTHER -> String(v)

JsonMembersText(members) ==
    IF members = <<>> THEN ""
    ELSE "\"" \o Head(members).key \o "\":" \o JsonText(Head(members).val)
         \o (IF Tail(members) = <<>> THEN "" ELSE ",")
         \o JsonMembersText(Tail(members))

(***************************************************************************)
(* Inputs.  Message texts: a short one and one long enough for a single    *)
(* record to reach 80% of maxBatchSizeBytes.  The options passed to        *)
(* build(): the four required ones, and batchSize and maxBatchSizeBytes    *)
(* scaled down from DEFAULT_CONFIG so that few records reach them.         *)
(***************************************************************************)
SmallMsg == Str("small")
BigMsg == Str(Repeat("x", 130))
Msgs == {SmallMsg, BigMsg}

DEFAULT_CONFIG ==
    [batchSize |-> 100, flushInterval |-> 1000, timeout |-> 30000,
     maxRetries |-> 3, maxBatchSizeBytes |-> 2 * 1024 * 1024]

Opts ==
    [domain |-> "us1", apiKey |-> "key", applicationName |-> "app",
     subsystemName |-> "api", batchSize |-> 2, maxBatchSizeBytes |-> 256,
     onError |-> "configured"]

\* the same options with a computerName
OptsWithComputerName ==
    [k \in DOMAIN Opts \cup {"computerName"} |->
        IF k = "computerName" THEN "test-server" ELSE Opts[k]]

\* the same options with no onError hook
OptsWithoutOnError == [k \in DOMAIN Opts \ {"onError"} |-> Opts[k]]

\* { ...DEFAULT_CONFIG, ...opts }
MergeConfig(opts) ==
    [k \in DOMAIN DEFAULT_CONFIG \cup DOMAIN opts |->
        IF k \in DOMAIN opts THEN opts[k] ELSE DEFAULT_CONFIG[k]]

(***************************************************************************)
(* transform.js                                                            *)
(***************************************************************************)
\* the own properties of the object literal; property names are strings
LEVEL_TO_SEVERITY ==
    "10" :> 1 @@ "20" :> 2 @@ "30" :> 3 @@ "40" :> 4 @@ "50" :> 5 @@ "60" :> 6

\* what an object literal inherits from Object.prototype: functions, and
\* under __proto__ the prototype object itself
ObjectPrototype ==
    {"constructor", "hasOwnProperty", "isPrototypeOf", "propertyIsEnumerable",
     "toLocaleString", "toString", "valueOf", "__defineGetter__",
     "__defineSetter__", "__lookupGetter__", "__lookupSetter__", "__proto__"}

\* LEVEL_TO_SEVERITY[pinoLog.level]: the key is String(level); an own
\* property first, then the prototype chain
LevelLookup(level) ==
    IF String(level) \in DOMAIN LEVEL_TO_SEVERITY
    THEN Num(LEVEL_TO_SEVERITY[String(level)])
    ELSE IF String(level) \in ObjectPrototype
    THEN [type |-> IF String(level) = "__proto__" THEN "object"
                   ELSE "function",
          value |-> String(level)]
    ELSE Undefined

\* formatMessage with String(msg) for every msg that is no string
formatMessageByString(msg) ==
    IF msg.type \in {"undefined", "null"} THEN ""
    ELSE IF msg.type = "string" THEN msg.value
    ELSE IF msg.type = "object" THEN "[object Object]"
    ELSE String(msg)

formatMessage(msg) ==
    IF msg.type \in {"undefined", "null"} THEN ""
    ELSE IF msg.type = "string" THEN msg.value
    ELSE IF msg.type = "object" THEN JsonText(msg)
    ELSE String(msg)

\* obj[k], undefined when the object has no such property
Prop(obj, k) == IF k \in DOMAIN obj THEN obj[k] ELSE Undefined

\* a string value as the wire log holds it
Plain(v) == IF v.type = "string" THEN v.value ELSE v

\* the optional members transformLog copies from the log when they are truthy
OptionalFields == {"category", "className", "methodName", "threadId"}

\* The five members every wire log has, then computerName (the configured
\* one, else the log's hostname) and the optional fields the log carries.
\* The options are plain strings, the properties of the log typed values;
\* the level of a log is no object.
transformLog(pinoLog, cfg) ==
    LET fromConfig == /\ "computerName" \in DOMAIN cfg
                      /\ cfg.computerName # ""
        members ==
            {"timestamp", "applicationName", "subsystemName", "severity",
             "text"}
            \cup (IF fromConfig \/ ~Falsey(Prop(pinoLog, "hostname"))
                  THEN {"computerName"} ELSE {})
            \cup {k \in OptionalFields : ~Falsey(Prop(pinoLog, k))}
    IN  [k \in members |->
            CASE k = "timestamp" -> pinoLog.time
              [] k = "applicationName" -> cfg.applicationName
              [] k = "subsystemName" -> cfg.subsystemName
              [] k = "severity" ->
                    IF Falsey(LevelLookup(pinoLog.level)) THEN Num(3)
                    ELSE LevelLookup(pinoLog.level)
              [] k = "text" -> formatMessage(pinoLog.msg)
              [] k = "computerName" ->
                    IF fromConfig THEN cfg.computerName
                    ELSE Plain(pinoLog.hostname)
              [] OTHER -> Plain(pinoLog[k])]

(***************************************************************************)
(* JSON.stringify(log).length for a wire log: timestamp is a number,       *)
(* severity a number (a function is left out, the prototype object is {}), *)
(* the other members strings without characters to escape.                 *)
(***************************************************************************)
RECURSIVE Digits(_)
Digits(n) == IF n < 10 THEN 1 ELSE 1 + Digits(n \div 10)

NumberKeys == {"timestamp", "severity"}

JsonValueLength(k, v) ==
    IF k = "timestamp" THEN Digits(v)
    ELSE IF k = "severity"
    THEN (IF v.type = "number" THEN Digits(v.value) ELSE 2)
    ELSE Len(v) + 2

RECURSIVE JsonMembersLength(_, _)
\* each member is "key":value followed by a comma or by the closing brace
JsonMembersLength(log, keys) ==
    IF keys = {} THEN 0
    ELSE LET k == CHOOSE x \in keys : TRUE
         IN  (IF k = "severity" /\ log[k].type = "function" THEN 0
              ELSE Len(k) + 2 + 1 + JsonValueLength(k, log[k]) + 1)
             + JsonMembersLength(log, keys \ {k})

JsonLength(log) ==
    IF DOMAIN log = {} THEN 2 ELSE 1 + JsonMembersLength(log, DOMAIN log)

(***************************************************************************)
(* State.                                                                  *)
(***************************************************************************)
VARIABLES
    config,            \* this.config (the transport's merged config)
    batch,             \* this.batch
    currentSizeBytes,  \* this.currentSizeBytes
    timer,             \* this.timer: an interval handle, or Null
    flushing,          \* this.flushing
    intervals,         \* the runtime's active setInterval handles
    deliverCalls,      \* every onFlush(batch) call so far, with its status
    added,             \* every log passed to add() so far, in order
    calls,             \* the flush()/stop() calls somebody awaits: what they
                       \* found and the deliver call they started
    loopPc,            \* where the transport's record loop is
    loopStep,          \* what the loop body did with the last record
    closePc,           \* where the transport's close hook is
    consumed,          \* records the loop has taken from the source
    testLog,           \* the log a test passes to transformLog, or NoLog
    testResult,        \* what transformLog has returned for it, or NoLog
    hostname,          \* the hostname in the logger's base bindings, or
                       \* Undefined when the logger writes none
    running,           \* the process is running: it has not exited
    testExchange,      \* what the server does with a test's sendLogs request
    testOutcome        \* how that sendLogs call has ended, or NoLog

vars == <<config, batch, currentSizeBytes, timer, flushing, intervals,
          deliverCalls, added, calls, loopPc, loopStep, closePc, consumed,
          testLog, testResult, testExchange, testOutcome, hostname,
          running>>

transportVars == <<loopPc, loopStep, closePc, consumed>>

transformVars == <<testLog, testResult>>

httpVars == <<testExchange, testOutcome>>

NoLog == [type |-> "none"]

\* no test of transformLog is running
NoTransform == testLog = NoLog /\ testResult = NoLog

\* no test of sendLogs is running
NoSend == testExchange = NoLog /\ testOutcome = NoLog

\* loopStep before the loop has handled a record
NoStep ==
    [kind |-> "none", malformed |-> FALSE, needsFlush |-> FALSE, size |-> 0,
     bytes |-> 0, flushCalled |-> FALSE]

\* The accumulator together with the deliver calls it has made.
This ==
    [batch |-> batch, currentSizeBytes |-> currentSizeBytes, timer |-> timer,
     flushing |-> flushing, intervals |-> intervals,
     deliverCalls |-> deliverCalls]

Become(w) ==
    /\ batch' = w.batch
    /\ currentSizeBytes' = w.currentSizeBytes
    /\ timer' = w.timer
    /\ flushing' = w.flushing
    /\ intervals' = w.intervals
    /\ deliverCalls' = w.deliverCalls

(***************************************************************************)
(* batch.js: BatchAccumulator                                              *)
(***************************************************************************)
startTimer(w) ==
    LET cleared == IF w.timer # Null THEN w.intervals \ {w.timer}
                   ELSE w.intervals
        handle == 1 + Cardinality(w.intervals)
    IN  [w EXCEPT !.intervals = cleared \cup {handle}, !.timer = handle]

constructor ==
    startTimer([batch |-> <<>>, currentSizeBytes |-> 0, timer |-> Null,
                flushing |-> FALSE, intervals |-> {},
                deliverCalls |-> <<>>])

estimateLogSize(log) == JsonLength(log)

\* needsFlush() with the threshold at the ceiling itself
needsFlushAtCeiling(w) == w.currentSizeBytes >= config.maxBatchSizeBytes

\* needsFlush() that is true from 80% of the ceiling up to the ceiling
needsFlushUpToCeiling(w) ==
    /\ 10 * w.currentSizeBytes >= 8 * config.maxBatchSizeBytes
    /\ w.currentSizeBytes <= config.maxBatchSizeBytes

\* currentSizeBytes >= maxBatchSizeBytes * 0.8, on integers
needsFlush(w) == 10 * w.currentSizeBytes >= 8 * config.maxBatchSizeBytes

\* add() that hands the buffer to onFlush itself once the byte threshold is
\* reached
addDeliversAtThreshold(w, log) ==
    LET w1 == [w EXCEPT !.batch = Append(@, log),
                        !.currentSizeBytes = @ + estimateLogSize(log)]
    IN  IF needsFlush(w1) /\ ~w1.flushing
        THEN [w1 EXCEPT !.flushing = TRUE,
                        !.batch = <<>>,
                        !.currentSizeBytes = 0,
                        !.deliverCalls =
                            Append(@, [batch |-> w1.batch, by |-> "add",
                                       status |-> "inflight",
                                       reported |-> 0,
                                       escaped |-> FALSE,
                                       sent |-> "unknown"])]
        ELSE w1

\* add() that assigns the estimate to the size counter instead of adding it
addAssignsSize(w, log) ==
    [w EXCEPT !.batch = Append(@, log),
              !.currentSizeBytes = estimateLogSize(log)]

\* add() that puts the log at the head of the buffer
addAtHead(w, log) ==
    [w EXCEPT !.batch = <<log>> \o @,
              !.currentSizeBytes = @ + estimateLogSize(log)]

\* add() on a buffer that flush() handed to onFlush without replacing it:
\* the log lands in the batch being delivered too
addIntoInFlight(w, log) ==
    [w EXCEPT !.batch = Append(@, log),
              !.currentSizeBytes = @ + estimateLogSize(log),
              !.deliverCalls =
                  [d \in DOMAIN @ |->
                      IF @[d].status = "inflight"
                      THEN [@[d] EXCEPT !.batch = Append(@, log)]
                      ELSE @[d]]]

add(w, log) ==
    [w EXCEPT !.batch = Append(@, log),
              !.currentSizeBytes = @ + estimateLogSize(log)]

\* add() that evaluates needsFlush() before it appends the log
addReturnsBeforeAppend(w, log) == needsFlush(w)

\* the value add() returns: needsFlush() once the log is in the buffer
addReturns(w, log) == needsFlush(add(w, log))

size(w) == Len(w.batch)

estimatedSizeBytes(w) == w.currentSizeBytes

\* flush() that starts a delivery although one is in flight
flushWithoutLatch(w, caller) ==
    IF Len(w.batch) = 0 THEN w
    ELSE [w EXCEPT !.flushing = TRUE,
                   !.batch = <<>>,
                   !.currentSizeBytes = 0,
                   !.deliverCalls =
                       Append(@, [batch |-> w.batch, by |-> caller,
                                  status |-> "inflight",
                                  reported |-> 0,
                                  escaped |-> FALSE,
                                  sent |-> "unknown"])]

\* flush() that hands the buffer over and keeps it
flushKeepsBuffer(w, caller) ==
    IF w.flushing \/ Len(w.batch) = 0 THEN w
    ELSE [w EXCEPT !.flushing = TRUE,
                   !.deliverCalls =
                       Append(@, [batch |-> w.batch, by |-> caller,
                                  status |-> "inflight",
                                  reported |-> 0,
                                  escaped |-> FALSE,
                                  sent |-> "unknown"])]

\* flush() that hands over the oldest record only and keeps the others
flushOldestOnly(w, caller) ==
    IF w.flushing \/ Len(w.batch) = 0 THEN w
    ELSE [w EXCEPT !.flushing = TRUE,
                   !.batch = Tail(@),
                   !.currentSizeBytes = @ - estimateLogSize(Head(w.batch)),
                   !.deliverCalls =
                       Append(@, [batch |-> <<Head(w.batch)>>, by |-> caller,
                                  status |-> "inflight",
                                  reported |-> 0,
                                  escaped |-> FALSE,
                                  sent |-> "unknown"])]

\* flush() that resets the buffer and leaves the size counter
flushKeepsSizeBytes(w, caller) ==
    IF w.flushing \/ Len(w.batch) = 0 THEN w
    ELSE [w EXCEPT !.flushing = TRUE,
                   !.batch = <<>>,
                   !.deliverCalls =
                       Append(@, [batch |-> w.batch, by |-> caller,
                                  status |-> "inflight",
                                  reported |-> 0,
                                  escaped |-> FALSE,
                                  sent |-> "unknown"])]

\* flush() without the check for an empty buffer
flushEvenIfEmpty(w, caller) ==
    IF w.flushing THEN w
    ELSE [w EXCEPT !.flushing = TRUE,
                   !.batch = <<>>,
                   !.currentSizeBytes = 0,
                   !.deliverCalls =
                       Append(@, [batch |-> w.batch, by |-> caller,
                                  status |-> "inflight",
                                  reported |-> 0,
                                  escaped |-> FALSE,
                                  sent |-> "unknown"])]

\* flush() up to its await: a return at once, or the buffer swap and the
\* call of onFlush, recorded as in flight.
flush(w, caller) ==
    IF w.flushing \/ Len(w.batch) = 0 THEN w
    ELSE [w EXCEPT !.flushing = TRUE,
                   !.batch = <<>>,
                   !.currentSizeBytes = 0,
                   !.deliverCalls =
                       Append(@, [batch |-> w.batch, by |-> caller,
                                  status |-> "inflight",
                                  reported |-> 0,
                                  escaped |-> FALSE,
                                  sent |-> "unknown"])]

\* flush() with try/finally and no catch: a rejection of onFlush escapes
flushSettledWithoutCatch(w, d, outcome) ==
    [w EXCEPT !.deliverCalls[d].status = outcome,
              !.deliverCalls[d].escaped = (outcome = "rejected"),
              !.flushing = FALSE]

\* flush() that clears the latch after the await, inside the try block
flushSettledKeepsLatch(w, d, outcome) ==
    [w EXCEPT !.deliverCalls[d].status = outcome,
              !.deliverCalls[d].escaped = FALSE,
              !.flushing = IF outcome = "rejected" THEN @ ELSE FALSE]

\* flush() that puts the batch of a rejected delivery back into the buffer
flushSettledRequeues(w, d, outcome) ==
    [w EXCEPT !.deliverCalls[d].status = outcome,
              !.deliverCalls[d].escaped = FALSE,
              !.flushing = FALSE,
              !.batch = IF outcome = "rejected"
                        THEN w.deliverCalls[d].batch \o @ ELSE @]

\* flush() that remembers a request it turned down and serves it when the
\* delivery in flight has settled
flushSettledServesPending(w, d, outcome) ==
    flush([w EXCEPT !.deliverCalls[d].status = outcome,
                    !.deliverCalls[d].escaped = FALSE,
                    !.flushing = FALSE], "pending")

\* flush() after its await: catch (when onFlush rejected; the error is logged
\* and does not escape) and finally.
flushSettled(w, d, outcome) ==
    [w EXCEPT !.deliverCalls[d].status = outcome,
              !.deliverCalls[d].escaped = FALSE,
              !.flushing = FALSE]

\* stop() that clears the timer and does not flush
stopWithoutFlush(w, caller) ==
    IF w.timer # Null
    THEN [w EXCEPT !.intervals = @ \ {w.timer}, !.timer = Null]
    ELSE w

\* stop() that resets the latch so that its flush() always runs
stopForcesFlush(w, caller) ==
    flush([w EXCEPT !.intervals = IF w.timer # Null THEN @ \ {w.timer} ELSE @,
                    !.timer = Null,
                    !.flushing = FALSE],
          caller)

\* stop() that clears the interval and keeps the handle in this.timer
stopKeepsHandle(w, caller) ==
    flush(IF w.timer # Null
          THEN [w EXCEPT !.intervals = @ \ {w.timer}]
          ELSE w,
          caller)

\* stop() up to its await of flush()
stop(w, caller) ==
    flush(IF w.timer # Null
          THEN [w EXCEPT !.intervals = @ \ {w.timer}, !.timer = Null]
          ELSE w,
          caller)

RECURSIVE FlushTimes(_, _, _)
\* n calls of flush() one after the other, none awaited in between
FlushTimes(w, n, caller) ==
    IF n = 0 THEN w ELSE FlushTimes(flush(w, caller), n - 1, caller)

(***************************************************************************)
(* Calls whose return somebody waits for.                                  *)
(***************************************************************************)
\* what a call finds when it is made
Found(w, nAdded) ==
    [batch |-> w.batch, flushing |-> w.flushing, nAdded |-> nAdded,
     nDeliver |-> Len(w.deliverCalls)]

\* the deliver call that a call taking w0 to w1 has started, or 0
Started(w0, w1) ==
    IF Len(w1.deliverCalls) > Len(w0.deliverCalls)
    THEN Len(w1.deliverCalls) ELSE 0

Call(op, by, n, w0, w1, nAdded) ==
    [op |-> op, by |-> by, n |-> n, found |-> Found(w0, nAdded),
     own |-> Started(w0, w1)]

\* The promise of a flush() or stop() call resolves when the call returns at
\* once, or when the deliver call it started has settled and flush() has run
\* to its end; whoever awaits it goes on in the same turn of the event loop,
\* before any timer tick, stream record or other completion is handled.
Returned(c) ==
    IF c.own = 0 THEN TRUE ELSE deliverCalls[c.own].status # "inflight"

RECURSIVE BatchBytes(_)
\* the sum of the estimated sizes of the logs of a batch
BatchBytes(b) ==
    IF b = <<>> THEN 0 ELSE estimateLogSize(Head(b)) + BatchBytes(Tail(b))

RECURSIVE Concat(_)
\* the batches of a sequence of deliver calls, one after the other
Concat(ds) ==
    IF ds = <<>> THEN <<>> ELSE Head(ds).batch \o Concat(Tail(ds))

InFlight == {d \in DOMAIN deliverCalls : deliverCalls[d].status = "inflight"}

(***************************************************************************)
(* A bare accumulator and its owner, as in the batching tests: the owner   *)
(* adds wire-ready logs, calls flush() (once, or several times in a row    *)
(* without awaiting) and stop(); the interval timer ticks; deliver calls   *)
(* resolve or reject.                                                      *)
(***************************************************************************)
\* new BatchAccumulator(config, onFlush)
Constructed ==
    /\ batch = constructor.batch
    /\ currentSizeBytes = constructor.currentSizeBytes
    /\ timer = constructor.timer
    /\ flushing = constructor.flushing
    /\ intervals = constructor.intervals
    /\ deliverCalls = constructor.deliverCalls

Init ==
    /\ config = MergeConfig(Opts)
    /\ Constructed
    /\ added = <<>>
    /\ calls = <<>>
    /\ loopPc = "none"
    /\ loopStep = NoStep
    /\ closePc = "none"
    /\ consumed = 0
    /\ NoTransform
    /\ NoSend
    /\ hostname = Undefined
    /\ running = TRUE

\* the log the next add() gets: its timestamp tells the logs apart
NextLog(msg) ==
    transformLog([time |-> Len(added) + 1, level |-> Num(30), msg |-> msg], config)

Add(msg) ==
    /\ running
    /\ Len(added) < MaxRecords
    /\ Become(add(This, NextLog(msg)))
    /\ added' = Append(added, NextLog(msg))
    /\ UNCHANGED <<running, hostname, httpVars, transformVars, config, calls, transportVars>>

\* flush1 = flush(); ...; flushN = flush(); await Promise.all([...])
OwnerFlush(n) ==
    /\ running
    /\ Len(calls) < MaxCalls
    /\ LET w == FlushTimes(This, n, "owner.flush")
       IN  /\ Become(w)
           /\ calls' = Append(calls, Call("flush", "owner", n, This, w, Len(added)))
    /\ UNCHANGED <<running, hostname, httpVars, transformVars, config, added, transportVars>>

\* await stop()
OwnerStop ==
    /\ running
    /\ Len(calls) < MaxCalls
    /\ LET w == stop(This, "owner.stop")
       IN  /\ Become(w)
           /\ calls' = Append(calls, Call("stop", "owner", 1, This, w, Len(added)))
    /\ UNCHANGED <<running, hostname, httpVars, transformVars, config, added, transportVars>>

\* The owner calls startTimer(), a method like add() and flush(), on the
\* accumulator it has constructed.
OwnerStartTimer ==
    /\ running
    /\ Len(calls) < MaxCalls
    /\ LET w == startTimer(This)
       IN  /\ Become(w)
           /\ calls' = Append(calls, Call("startTimer", "owner", 1, This, w,
                                          Len(added)))
    /\ UNCHANGED <<running, hostname, httpVars, transformVars, config, added, transportVars>>

\* setInterval(async () => { await this.flush() }, flushInterval)
TimerTick ==
    /\ running
    /\ intervals # {}
    /\ Become(flush(This, "timer"))
    /\ UNCHANGED <<running, hostname, httpVars, transformVars, config, added, calls, transportVars>>

\* The test's onFlush(batch) resolves or rejects, and flush() goes on after
\* its await.
DeliverSettles(d, outcome) ==
    /\ running
    /\ loopPc = "none"
    /\ d \in InFlight
    /\ Become(flushSettled(This, d, outcome))
    /\ UNCHANGED <<running, hostname, httpVars, transformVars, config, added, calls, transportVars>>

\* this.timer.unref(): the interval does not keep the process alive.  When
\* the owner has nothing more to do the process exits, whatever the buffer
\* holds and whether or not the timer is set; nothing runs after that.  A
\* pending onFlush call keeps the process alive only as long as it holds a
\* handle of the event loop (a socket, a timer): onFlush is the caller's
\* function, and with a promise that holds none the process exits with the
\* delivery in flight and flushing still true.
ProcessExits ==
    /\ running
    /\ loopPc = "none"
    /\ running' = FALSE
    /\ UNCHANGED <<hostname, httpVars, transformVars, config, batch,
                   currentSizeBytes, timer, flushing, intervals, deliverCalls,
                   added, calls, transportVars>>

Next ==
    \/ \E msg \in Msgs : Add(msg)
    \/ \E n \in {1, FlushBurst} : OwnerFlush(n)
    \/ OwnerStop
    \/ OwnerStartTimer
    \/ TimerTick
    \/ ProcessExits
    \/ \E d \in DOMAIN deliverCalls, outcome \in {"resolved", "rejected"} :
          DeliverSettles(d, outcome)

Spec == Init /\ [][Next]_vars

\* The same accumulator with the scheduling the code relies on: while the
\* process runs and the interval is set, its callback runs every
\* flushInterval ms, and every onFlush promise settles.  The timer is
\* unref'ed, so the process may exit between two ticks or with a delivery
\* pending (ProcessExits), and then no callback runs any more.
LiveSpec ==
    /\ Spec
    /\ WF_vars(TimerTick)
    /\ WF_vars(\E d \in DOMAIN deliverCalls,
                  outcome \in {"resolved", "rejected"} :
                  DeliverSettles(d, outcome))

(***************************************************************************)
(* index.js: the transport.  buildTransport creates the accumulator with   *)
(* its flush handler and hands pino-abstract-transport the record loop     *)
(* and the close hook.                                                     *)
(***************************************************************************)
TransportInit ==
    /\ config \in {MergeConfig(Opts), MergeConfig(OptsWithoutOnError)}
    /\ Constructed
    /\ added = <<>>
    /\ calls = <<>>
    /\ loopPc = "read"
    /\ loopStep = NoStep
    /\ closePc = "idle"
    /\ consumed = 0
    /\ NoTransform
    /\ NoSend
    /\ hostname \in {Undefined, Str("host")}
    /\ running = TRUE

\* The logs the logger writes: time, level and msg, and the hostname when
\* the logger's base bindings hold one.
LineLogs(time) ==
    IF hostname = Undefined
    THEN [time : {time}, level : {Num(30)}, msg : Msgs]
    ELSE [time : {time}, level : {Num(30)}, msg : Msgs, hostname : {hostname}]

\* What the source yields: a string (a line) or an object.  A string is
\* given by what JSON.parse makes of it: a log, or a SyntaxError.
Lines(time) ==
    { l \in [isString : BOOLEAN, wellFormed : BOOLEAN,
             value : LineLogs(time)] : l.isString \/ l.wellFormed }

\* a flush on either threshold
ShouldFlushOnEither(needs, count) == needs \/ count >= config.batchSize

\* needsFlush && batchAccumulator.size() >= config.batchSize
ShouldFlush(needs, count) == needs /\ count >= config.batchSize

\* the call the loop or the close hook awaits: the last one it made
Awaited(by) ==
    LET mine == {i \in DOMAIN calls : calls[i].by = by}
    IN  IF mine = {} THEN 0
        ELSE calls[CHOOSE i \in mine : \A j \in mine : j <= i].own

\* a string that JSON.parse rejects
Malformed(line) == line.isString /\ ~line.wellFormed

\* a parse step whose catch block does not leave the loop body: the record
\* goes on to transformLog, which finds no msg in it
ParseLineFallsThrough(line) ==
    [ok |-> TRUE,
     value |-> IF Malformed(line)
               THEN [line.value EXCEPT !.msg = [type |-> "undefined"]]
               ELSE line.value]

\* if (typeof obj === 'string') { try { obj = JSON.parse(obj) } catch (err)
\* { console.error(...); continue } }
ParseLine(line) ==
    IF Malformed(line) THEN [ok |-> FALSE, value |-> Null]
    ELSE [ok |-> TRUE, value |-> line.value]

\* a loop body that calls flush() and does not await it
LoopRecordWithoutAwait(line) ==
    /\ loopPc = "read"
    /\ closePc = "idle"
    /\ consumed < MaxLines
    /\ consumed' = consumed + 1
    /\ IF ~ParseLine(line).ok
       THEN /\ loopStep' = [NoStep EXCEPT !.kind = "skipped",
                                          !.malformed = Malformed(line)]
            /\ UNCHANGED <<loopPc, batch, currentSizeBytes, timer, flushing,
                           intervals, deliverCalls, added, calls>>
       ELSE LET coralogixLog == transformLog(ParseLine(line).value, config)
                w1 == add(This, coralogixLog)
                needs == addReturns(This, coralogixLog)
                doFlush == ShouldFlush(needs, size(w1))
                w2 == IF doFlush THEN flush(w1, "loop.flush") ELSE w1
            IN  /\ Become(w2)
                /\ added' = Append(added, coralogixLog)
                /\ calls' = IF doFlush
                            THEN Append(calls, Call("flush", "loop", 1, w1, w2,
                                                    Len(added) + 1))
                            ELSE calls
                /\ loopPc' = "read"
                /\ loopStep' = [kind |-> "added",
                                malformed |-> Malformed(line),
                                needsFlush |-> needs,
                                size |-> size(w1),
                                bytes |-> estimatedSizeBytes(w1),
                                flushCalled |-> doFlush]
    /\ UNCHANGED <<running, hostname, httpVars, transformVars, config, closePc>>

\* One turn of the for await loop: parse, transform, add, and flush() when
\* the condition holds.  The loop then waits for the flush it started, or
\* for the next record.  Once the close hook has run the stream is destroyed
\* and yields no further record.
LoopRecord(line) ==
    /\ loopPc = "read"
    /\ closePc = "idle"
    /\ consumed < MaxLines
    /\ consumed' = consumed + 1
    /\ IF ~ParseLine(line).ok
       THEN /\ loopStep' = [NoStep EXCEPT !.kind = "skipped",
                                          !.malformed = Malformed(line)]
            /\ UNCHANGED <<loopPc, batch, currentSizeBytes, timer, flushing,
                           intervals, deliverCalls, added, calls>>
       ELSE LET coralogixLog == transformLog(ParseLine(line).value, config)
                w1 == add(This, coralogixLog)
                needs == addReturns(This, coralogixLog)
                doFlush == ShouldFlush(needs, size(w1))
                w2 == IF doFlush THEN flush(w1, "loop.flush") ELSE w1
            IN  /\ Become(w2)
                /\ added' = Append(added, coralogixLog)
                /\ calls' = IF doFlush
                            THEN Append(calls, Call("flush", "loop", 1, w1, w2,
                                                    Len(added) + 1))
                            ELSE calls
                /\ loopPc' = IF Started(w1, w2) # 0 THEN "awaitFlush"
                             ELSE "read"
                /\ loopStep' = [kind |-> "added",
                                malformed |-> Malformed(line),
                                needsFlush |-> needs,
                                size |-> size(w1),
                                bytes |-> estimatedSizeBytes(w1),
                                flushCalled |-> doFlush]
    /\ UNCHANGED <<running, hostname, httpVars, transformVars, config, closePc>>

\* a loop in a try block without finally: stop() is called when the source
\* ends and not when reading from it throws
StreamEndsWithoutFinally(threw) ==
    /\ loopPc = "read"
    /\ LET w == IF threw THEN This ELSE stop(This, "loop.stop")
       IN  /\ Become(w)
           /\ calls' = IF threw THEN calls
                       ELSE Append(calls, Call("stop", "loop", 1, This, w,
                                               Len(added)))
           /\ loopPc' = IF Started(This, w) # 0
                        THEN (IF threw THEN "awaitStopThrew" ELSE "awaitStop")
                        ELSE (IF threw THEN "threw" ELSE "done")
    /\ UNCHANGED <<running, hostname, httpVars, transformVars, config, added, loopStep, closePc, consumed>>

\* The source ends, or reading from it throws: the finally block calls
\* stop() and awaits it.
StreamEnds(threw) ==
    /\ loopPc = "read"
    /\ LET w == stop(This, "loop.stop")
       IN  /\ Become(w)
           /\ calls' = Append(calls, Call("stop", "loop", 1, This, w,
                                          Len(added)))
           /\ loopPc' = IF Started(This, w) # 0
                        THEN (IF threw THEN "awaitStopThrew" ELSE "awaitStop")
                        ELSE (IF threw THEN "threw" ELSE "done")
    /\ UNCHANGED <<running, hostname, httpVars, transformVars, config, added, loopStep, closePc, consumed>>

\* close: async () => { await batchAccumulator.stop() }
CloseHook ==
    /\ closePc = "idle"
    /\ LET w == stop(This, "close.stop")
       IN  /\ Become(w)
           /\ calls' = Append(calls, Call("stop", "close", 1, This, w,
                                          Len(added)))
           /\ closePc' = IF Started(This, w) # 0 THEN "awaitStop" ELSE "done"
    /\ UNCHANGED <<running, hostname, httpVars, transformVars, config, added, loopPc, loopStep, consumed>>

\* a flush handler that logs the error and does not call onError
FlushHandlerWithoutOnError(result) ==
    [status |-> "resolved", reported |-> 0]

\* The flush handler: try { await sendLogs(batch, config) } catch (error) {
\* console.error(...); if (config.onError) config.onError(error) }.
\* It resolves unless onError throws; reported is the number of calls of
\* onError it has made.
FlushHandler(result) ==
    CASE result = "sent" -> [status |-> "resolved", reported |-> 0]
      [] result = "failed" ->
            [status |-> "resolved",
             reported |-> IF "onError" \in DOMAIN config THEN 1 ELSE 0]
      [] result = "failedAndOnErrorThrows" ->
            [status |-> "rejected", reported |-> 1]

\* sendLogs settles, the flush handler ends, flush() goes on after its await,
\* and whoever awaits that flush (the loop, the finally block, the close
\* hook) goes on.
SendSettles(d, result) ==
    /\ loopPc # "none"
    /\ d \in InFlight
    /\ result = "failedAndOnErrorThrows" => "onError" \in DOMAIN config
    /\ LET h == FlushHandler(result)
           w == flushSettled(This, d, h.status)
       IN  Become([w EXCEPT !.deliverCalls[d].reported = h.reported,
                            !.deliverCalls[d].sent =
                                IF result = "sent" THEN "ok" ELSE "failed"])
    /\ loopPc' = IF Awaited("loop") # d THEN loopPc
                 ELSE CASE loopPc = "awaitFlush" -> "read"
                        [] loopPc = "awaitStop" -> "done"
                        [] loopPc = "awaitStopThrew" -> "threw"
                        [] OTHER -> loopPc
    /\ closePc' = IF Awaited("close") = d /\ closePc = "awaitStop"
                  THEN "done" ELSE closePc
    /\ UNCHANGED <<running, hostname, httpVars, transformVars, config, added, calls, loopStep, consumed>>

TransportNext ==
    \/ \E line \in Lines(consumed + 1) : LoopRecord(line)
    \/ \E threw \in BOOLEAN : StreamEnds(threw)
    \/ CloseHook
    \/ TimerTick
    \/ \E d \in DOMAIN deliverCalls,
          result \in {"sent", "failed", "failedAndOnErrorThrows"} :
          SendSettles(d, result)

TransportSpec == TransportInit /\ [][TransportNext]_vars

(***************************************************************************)
(* index.js: build(opts).  Before the call config holds the options as     *)
(* passed; validateConfig throws, and build() rejects, before anything is  *)
(* created, or the transport of TransportSpec is built with the merged     *)
(* config.                                                                 *)
(***************************************************************************)
VALID_DOMAINS == {"us1", "us2", "eu1", "eu2", "ap1", "ap2", "ap3"}

Required == {"domain", "apiKey", "applicationName", "subsystemName"}

\* the values tried for a required option: the empty string, the value of
\* Opts and, for the domain, every valid one and two that are not
Candidates(k) ==
    IF k = "domain" THEN VALID_DOMAINS \cup {"", "invalid", "US1"}
    ELSE {"", Opts[k]}

\* the options passed to build(): each required one is left out or takes one
\* of its candidates; the other options are those of Opts
BuildOpts ==
    LET values == UNION {Candidates(k) : k \in Required}
        rest == [k \in DOMAIN OptsWithoutOnError \ Required |-> Opts[k]]
    IN  { f @@ rest :
            f \in UNION { {g \in [ks -> values] :
                              \A k \in ks : g[k] \in Candidates(k)} :
                          ks \in SUBSET Required } }

\* !opts[k] for an option that is a string or is left out
Falsy(opts, k) == k \notin DOMAIN opts \/ opts[k] = ""

\* validateConfig without the check against VALID_DOMAINS
validateConfigAnyDomain(opts) ==
    IF Falsy(opts, "domain") THEN "domain is required"
    ELSE IF Falsy(opts, "apiKey") THEN "apiKey is required"
    ELSE IF Falsy(opts, "applicationName") THEN "applicationName is required"
    ELSE IF Falsy(opts, "subsystemName") THEN "subsystemName is required"
    ELSE "ok"

\* the message of the Error validateConfig throws, or "ok"
validateConfig(opts) ==
    IF Falsy(opts, "domain") THEN "domain is required"
    ELSE IF opts.domain \notin VALID_DOMAINS THEN "Invalid domain"
    ELSE IF Falsy(opts, "apiKey") THEN "apiKey is required"
    ELSE IF Falsy(opts, "applicationName") THEN "applicationName is required"
    ELSE IF Falsy(opts, "subsystemName") THEN "subsystemName is required"
    ELSE "ok"

\* build() has not been called: there is no accumulator and no transport
BuildInit ==
    /\ config \in BuildOpts
    /\ batch = <<>>
    /\ currentSizeBytes = 0
    /\ timer = Null
    /\ flushing = FALSE
    /\ intervals = {}
    /\ deliverCalls = <<>>
    /\ added = <<>>
    /\ calls = <<>>
    /\ loopPc = "unbuilt"
    /\ loopStep = NoStep
    /\ closePc = "none"
    /\ consumed = 0
    /\ NoTransform
    /\ NoSend
    /\ hostname \in {Undefined, Str("host")}
    /\ running = TRUE

\* await build(opts)
Build ==
    /\ loopPc = "unbuilt"
    /\ IF validateConfig(config) = "ok"
       THEN /\ config' = MergeConfig(config)
            /\ Become(constructor)
            /\ loopPc' = "read"
            /\ closePc' = "idle"
       ELSE /\ loopPc' = "rejected"
            /\ UNCHANGED <<running, hostname, httpVars, transformVars, config, batch, currentSizeBytes, timer, flushing,
                           intervals, deliverCalls, closePc>>
    /\ UNCHANGED <<running, hostname, httpVars, transformVars, added, calls, loopStep, consumed>>

BuildNext == Build \/ TransportNext

BuildSpec == BuildInit /\ [][BuildNext]_vars

(***************************************************************************)
(* transform.js on its own, as in the transform tests: a test builds a     *)
(* pino log and calls transformLog(pinoLog, config) on it.                 *)
(***************************************************************************)
\* levels: pino's six, numbers outside the table, a missing or null level,
\* labels, and names that every object inherits
Levels ==
    {Num(10), Num(20), Num(30), Num(40), Num(50), Num(60),
     Num(0), Num(25), Num(70), Undefined, NullValue, Bool(TRUE),
     Str("30"), Str("info"), Str("constructor"), Str("__proto__")}

\* { key: 'value', nested: { data: 123 } }
NestedMsg ==
    Obj(<<[key |-> "key", val |-> Str("value")],
          [key |-> "nested",
           val |-> Obj(<<[key |-> "data", val |-> Num(123)]>>)]>>)

\* messages: missing, null, strings, a number, a boolean and objects
TestMsgs ==
    {Undefined, NullValue, Str(""), Str("test"), Num(5), Bool(FALSE),
     Obj(<<>>), NestedMsg}

\* what the tests put into the optional properties of a log
CustomFields ==
    [category |-> Str("test-category"), className |-> Str("TestClass"),
     methodName |-> Str("testMethod"), threadId |-> Str("thread-123")]

\* an info log with msg 'test', a hostname (none, empty or 'log-host') and
\* any of the optional properties
LogsWithFields ==
    {[k \in {"time", "level", "msg"}
             \cup (IF host = Undefined THEN {} ELSE {"hostname"}) \cup fields |->
         CASE k = "time" -> 1
           [] k = "level" -> Num(30)
           [] k = "msg" -> Str("test")
           [] k = "hostname" -> host
           [] OTHER -> CustomFields[k]] :
        host \in {Undefined, Str(""), Str("log-host")},
        fields \in SUBSET OptionalFields}

PinoLogs == [time : {1}, level : Levels, msg : TestMsgs] \cup LogsWithFields

TransformInit ==
    /\ config \in {MergeConfig(Opts), MergeConfig(OptsWithComputerName)}
    /\ batch = <<>>
    /\ currentSizeBytes = 0
    /\ timer = Null
    /\ flushing = FALSE
    /\ intervals = {}
    /\ deliverCalls = <<>>
    /\ added = <<>>
    /\ calls = <<>>
    /\ loopPc = "none"
    /\ loopStep = NoStep
    /\ closePc = "none"
    /\ consumed = 0
    /\ testLog \in PinoLogs
    /\ testResult = NoLog
    /\ NoSend
    /\ hostname = Undefined
    /\ running = TRUE

\* const result = transformLog(pinoLog, config)
Transform ==
    /\ testLog # NoLog
    /\ testResult = NoLog
    /\ testResult' = transformLog(testLog, config)
    /\ UNCHANGED <<config, batch, currentSizeBytes, timer, flushing, intervals,
                   deliverCalls, added, calls, transportVars, testLog,
                   httpVars, hostname, running>>

TransformNext == Transform

TransformSpec == TransformInit /\ [][TransformNext]_vars

(***************************************************************************)
(* http.js on its own, as in the HTTP client tests: a test fixes what the  *)
(* server does with the request and calls sendLogs(logs, config).          *)
(***************************************************************************)
\* class HttpError extends Error: name, message, statusCode, body
HttpError(message, statusCode, body) ==
    [type |-> "throw", name |-> "HttpError", message |-> message,
     statusCode |-> statusCode, body |-> body]

\* new Error(message)
Error(message) == [type |-> "throw", name |-> "Error", message |-> message]

\* return value
Return(value) == [type |-> "return", value |-> value]

\* the 2xx test taken up to and including 300
sendLogsUpTo300(exchange) ==
    IF exchange.kind = "requestError"
    THEN Error("Failed to send logs: " \o exchange.message)
    ELSE IF exchange.kind = "bodyError"
    THEN Error("Failed to send logs: " \o exchange.message)
    ELSE IF exchange.statusCode >= 200 /\ exchange.statusCode <= 300
    THEN Return([success |-> TRUE, statusCode |-> exchange.statusCode])
    ELSE HttpError("HTTP " \o ToString(exchange.statusCode) \o ": "
                       \o exchange.body,
                   exchange.statusCode, exchange.body)

\* sendLogs(logs, config), by what the exchange with the server does:
\* request() rejects, or it resolves with a status and then body.text()
\* rejects or resolves with the body.  One attempt; the catch block passes an
\* HttpError on and wraps every other error.
sendLogs(exchange) ==
    IF exchange.kind = "requestError"
    THEN Error("Failed to send logs: " \o exchange.message)
    ELSE IF exchange.kind = "bodyError"
    THEN Error("Failed to send logs: " \o exchange.message)
    ELSE IF exchange.statusCode >= 200 /\ exchange.statusCode < 300
    THEN Return([success |-> TRUE, statusCode |-> exchange.statusCode])
    ELSE HttpError("HTTP " \o ToString(exchange.statusCode) \o ": "
                       \o exchange.body,
                   exchange.statusCode, exchange.body)

\* status codes: the tests' (200, 401, 413, 429, 500), both ends of the 2xx
\* range and their neighbours, and other classes
StatusCodes ==
    {100, 199, 200, 201, 204, 299, 300, 301, 304, 400, 401, 404, 413, 429,
     500, 503}

\* response bodies
Bodies ==
    {"", "{\"status\":\"ok\"}", "{\"error\":\"Unauthorized\"}",
     "Internal Server Error"}

\* what can happen to one request
Exchanges ==
    [kind : {"response"}, statusCode : StatusCodes, body : Bodies]
    \cup [kind : {"bodyError"}, statusCode : StatusCodes,
          message : {"Body Timeout Error"}]
    \cup [kind : {"requestError"},
          message : {"connect ECONNREFUSED", "Headers Timeout Error"}]

SendInit ==
    /\ config = MergeConfig(Opts)
    /\ batch = <<>>
    /\ currentSizeBytes = 0
    /\ timer = Null
    /\ flushing = FALSE
    /\ intervals = {}
    /\ deliverCalls = <<>>
    /\ added = <<>>
    /\ calls = <<>>
    /\ loopPc = "none"
    /\ loopStep = NoStep
    /\ closePc = "none"
    /\ consumed = 0
    /\ NoTransform
    /\ testExchange \in Exchanges
    /\ hostname = Undefined
    /\ running = TRUE
    /\ testOutcome = NoLog

\* await sendLogs(logs, config)
Send ==
    /\ testExchange # NoLog
    /\ testOutcome = NoLog
    /\ testOutcome' = sendLogs(testExchange)
    /\ UNCHANGED <<config, batch, currentSizeBytes, timer, flushing, intervals,
                   deliverCalls, added, calls, transportVars, transformVars,
                   testExchange, hostname, running>>

SendNext == Send

SendSpec == SendInit /\ [][SendNext]_vars

(***************************************************************************)
(* Properties.                                                             *)
(***************************************************************************)
\* the byte threshold of needsFlush(), stated on a number of bytes
AtEightyPercent(bytes) == 10 * bytes >= 8 * config.maxBatchSizeBytes

\* no add() since call c was made
NoAddSince(c) == Len(added) = c.found.nAdded

\* C1: under any interleaving of add(), flush(), timer ticks, stop() and
\* deliver completions, at most one deliver call is in flight.
C1_AtMostOneDeliverInFlight == Cardinality(InFlight) <= 1

\* a flush() or stop() that found records buffered and a delivery in flight,
\* which is still in flight
C1_Witness ==
    \E i \in DOMAIN calls :
        /\ calls[i].found.flushing
        /\ Len(calls[i].found.batch) >= 1
        /\ calls[i].found.nDeliver \in InFlight

\* C2: k >= 1 records buffered, no flush in flight, n flush() calls in a row
\* and no add(): deliver is called exactly once, with those k records, and
\* the buffer is empty once the calls have returned.
C2_ExclusiveFlush ==
    \A i \in DOMAIN calls :
        LET c == calls[i]
        IN  (/\ c.op = "flush"
             /\ Len(c.found.batch) >= 1
             /\ ~c.found.flushing
             /\ NoAddSince(c))
            => /\ c.own = c.found.nDeliver + 1
               /\ Len(deliverCalls) = c.own
               /\ deliverCalls[c.own].batch = c.found.batch
               /\ Returned(c) => batch = <<>>

\* three flush() calls in a row on two buffered records have returned
C2_Witness ==
    \E i \in DOMAIN calls :
        /\ calls[i].op = "flush"
        /\ calls[i].n = FlushBurst
        /\ Len(calls[i].found.batch) >= 2
        /\ ~calls[i].found.flushing
        /\ NoAddSince(calls[i])
        /\ Returned(calls[i])

\* C3: stop() called on a non-empty buffer, in any state, hands the buffered
\* records to deliver, and when it returns that delivery has completed and
\* the buffer is empty.
C3_StopDrainsBuffer ==
    \A i \in DOMAIN calls :
        LET c == calls[i]
        IN  (/\ c.op = "stop"
             /\ Len(c.found.batch) >= 1
             /\ NoAddSince(c)
             /\ Returned(c))
            => /\ c.own # 0
               /\ deliverCalls[c.own].batch = c.found.batch
               /\ batch = <<>>

\* C4: stop() called while a deliver call is in flight does not return
\* before that deliver call has completed.
C4_StopAwaitsInFlightDeliver ==
    \A i \in DOMAIN calls :
        LET c == calls[i]
        IN  (c.op = "stop" /\ c.found.flushing /\ Returned(c))
            => deliverCalls[c.found.nDeliver].status # "inflight"

\* C5: once the stream has ended, stop() has returned in the finally block
\* and in the close hook, and no deliver call is pending, every record added
\* has been handed to deliver and the buffer is empty.
C5_NoRecordLostOnShutdown ==
    (loopPc = "done" /\ closePc = "done" /\ InFlight = {})
    => (batch = <<>> /\ Concat(deliverCalls) = added)

\* C6: K >= 1 records added and no flush started before: stop() makes
\* exactly one deliver call, with all K records in insertion order, and when
\* it returns the delivery has completed and the buffer is empty.
C6_StopDeliversAll ==
    \A i \in DOMAIN calls :
        LET c == calls[i]
        IN  (/\ c.op = "stop"
             /\ c.found.nDeliver = 0
             /\ c.found.nAdded >= 1
             /\ NoAddSince(c))
            => /\ c.own = 1
               /\ Len(deliverCalls) = 1
               /\ deliverCalls[1].batch = added
               /\ Returned(c) => batch = <<>>

\* stop() has returned after two or more records and no earlier flush
C6_Witness ==
    \E i \in DOMAIN calls :
        /\ calls[i].op = "stop"
        /\ calls[i].found.nDeliver = 0
        /\ calls[i].found.nAdded >= 2
        /\ NoAddSince(calls[i])
        /\ Returned(calls[i])

\* C7: whenever an add() of the record loop leaves batchSize records or more
\* in the buffer, the loop calls flush() before it takes the next record,
\* whatever the estimated size.
C7_CountTrigger ==
    (loopStep.kind = "added" /\ loopStep.size >= config.batchSize)
    => loopStep.flushCalled

\* C8: whenever an add() of the record loop brings the estimated size to 80%
\* of maxBatchSizeBytes or more, the loop flushes before it takes the next
\* record, whatever the count.
C8_CapacityTrigger ==
    (loopStep.kind = "added" /\ AtEightyPercent(loopStep.bytes))
    => loopStep.flushCalled

\* C9: the record loop calls flush() after an add() exactly when that add()
\* returned true (the byte threshold) and size() >= batchSize; a delivery is
\* started by the loop's flush() only then, and by a timer tick or stop()
\* otherwise.
C9_LoopFlushCondition ==
    /\ loopStep.kind = "added" =>
          /\ loopStep.needsFlush <=> AtEightyPercent(loopStep.bytes)
          /\ loopStep.flushCalled <=>
                (AtEightyPercent(loopStep.bytes)
                 /\ loopStep.size >= config.batchSize)
    /\ \A d \in DOMAIN deliverCalls :
          LET call == deliverCalls[d]
          IN  /\ call.by \in {"loop.flush", "loop.stop", "close.stop", "timer"}
              /\ call.by = "loop.flush" =>
                    /\ Len(call.batch) >= config.batchSize
                    /\ AtEightyPercent(BatchBytes(call.batch))

\* the loop has flushed once, and has then added a record that reached the
\* byte threshold without flushing
C9_Witness ==
    /\ loopStep.kind = "added"
    /\ loopStep.needsFlush
    /\ ~loopStep.flushCalled
    /\ \E d \in DOMAIN deliverCalls : deliverCalls[d].by = "loop.flush"

\* C10: the estimated sizes of the records of every batch handed to deliver
\* add up to maxBatchSizeBytes at most.
C10_BatchWithinLimit ==
    \A d \in DOMAIN deliverCalls :
        BatchBytes(deliverCalls[d].batch) <= config.maxBatchSizeBytes

\* C11: a deliver call that rejects does not make flush() or stop() raise and
\* leaves the latch cleared; a flush() or stop() that finds records buffered
\* after rejected deliveries hands them to deliver as after a success.
C11_FailureContained ==
    /\ \A d \in DOMAIN deliverCalls : ~deliverCalls[d].escaped
    /\ InFlight = {} => ~flushing
    /\ \A n \in DOMAIN calls :
          LET c == calls[n]
          IN  (/\ c.op \in {"flush", "stop"}
               /\ c.found.nDeliver >= 1
               /\ ~c.found.flushing
               /\ \A d \in 1..c.found.nDeliver :
                     deliverCalls[d].status = "rejected"
               /\ Len(c.found.batch) >= 1)
              => /\ c.own = c.found.nDeliver + 1
                 /\ deliverCalls[c.own].batch = c.found.batch

\* every deliver call so far has rejected, and a call made after the first
\* rejection has started the second delivery
C11_Witness ==
    /\ Len(deliverCalls) = 2
    /\ \A d \in DOMAIN deliverCalls : deliverCalls[d].status = "rejected"
    /\ \E n \in DOMAIN calls :
          /\ calls[n].found.nDeliver = 1
          /\ ~calls[n].found.flushing
          /\ calls[n].own = 2

\* C12: no batch handed to deliver is empty, and a flush() on an empty
\* buffer, from the owner, the timer or stop(), starts no delivery and leaves
\* the buffer, the size counter and the latch as they were.
C12_NoEmptyDelivery ==
    /\ [](\A d \in DOMAIN deliverCalls : Len(deliverCalls[d].batch) >= 1)
    /\ [][(/\ batch = <<>>
           /\ \/ TimerTick
              \/ OwnerStop
              \/ \E n \in {1, FlushBurst} : OwnerFlush(n))
          => UNCHANGED <<batch, currentSizeBytes, flushing, deliverCalls>>]_vars

\* flush() and stop() were both called on an empty buffer with no delivery
\* in flight
C12_Witness ==
    /\ \E n \in DOMAIN calls :
          /\ calls[n].op = "flush"
          /\ Len(calls[n].found.batch) = 0
          /\ ~calls[n].found.flushing
    /\ \E n \in DOMAIN calls :
          /\ calls[n].op = "stop"
          /\ Len(calls[n].found.batch) = 0
          /\ ~calls[n].found.flushing

\* s is a prefix of t
IsPrefix(s, t) == Len(s) <= Len(t) /\ SubSeq(t, 1, Len(s)) = s

\* C13: the batches handed to deliver, concatenated in hand-off order, are
\* always a prefix of the records in the order add() received them.
C13_OrderPreserved == IsPrefix(Concat(deliverCalls), added)

\* two records were added and both have been handed to deliver
C13_Witness ==
    /\ Len(added) = 2
    /\ Len(Concat(deliverCalls)) = 2

\* C14: estimatedSizeBytes() is the sum of the estimated sizes of the buffered
\* records and size() is their number, also right after the buffer swap.
C14_SizeCounters ==
    /\ estimatedSizeBytes(This) = BatchBytes(batch)
    /\ size(This) = Len(batch)
    /\ batch = <<>> => estimatedSizeBytes(This) = 0

\* a record was added after a flush swapped the buffer, while the delivery
\* is in flight
C14_Witness ==
    /\ InFlight # {}
    /\ size(This) = 1
    /\ estimatedSizeBytes(This) = estimateLogSize(batch[1])

\* the records of a sequence
Range(s) == {s[i] : i \in DOMAIN s}

\* C15: the batch of a delivery in flight is the buffer as flush() found it
\* and does not change; a record added meanwhile goes into the new buffer
\* and is never part of that batch.
C15_SwapIsolation ==
    /\ [](\A d \in InFlight :
             Range(deliverCalls[d].batch) \cap Range(batch) = {})
    /\ [][/\ Len(deliverCalls') > Len(deliverCalls) =>
                /\ deliverCalls'[Len(deliverCalls')].batch = batch
                /\ batch' = <<>>
          /\ \A d \in InFlight :
                /\ deliverCalls'[d].batch = deliverCalls[d].batch
                /\ Len(added') > Len(added) =>
                      /\ batch' = Append(batch, added'[Len(added')])
                      /\ added'[Len(added')] \notin
                             Range(deliverCalls'[d].batch)]_vars

\* a delivery is in flight and a record added after its flush is buffered
C15_Witness ==
    \E d \in InFlight :
        /\ batch # <<>>
        /\ batch[1] \notin Range(deliverCalls[d].batch)
        /\ batch[1] = added[Len(Concat(deliverCalls)) + 1]

\* no record occurs twice in s
NoDuplicates(s) == \A i, j \in DOMAIN s : s[i] = s[j] => i = j

\* C16: no record is handed to deliver twice, and no record of a batch
\* handed to deliver, rejected or not, is in the buffer again.
C16_NoRetryNoRequeue ==
    /\ NoDuplicates(Concat(deliverCalls) \o batch)
    /\ \A d \in DOMAIN deliverCalls :
          deliverCalls[d].status = "rejected" =>
              /\ Range(deliverCalls[d].batch) \cap Range(batch) = {}
              /\ \A e \in DOMAIN deliverCalls \ {d} :
                    Range(deliverCalls[d].batch)
                        \cap Range(deliverCalls[e].batch) = {}

\* a delivery was rejected, and a later flush has handed the next record to
\* deliver
C16_Witness ==
    \E d \in DOMAIN deliverCalls :
        /\ deliverCalls[d].status = "rejected"
        /\ d < Len(deliverCalls)
        /\ deliverCalls[d + 1].batch # <<>>

\* C17: needsFlush() is true exactly when five times the estimated size is
\* at least four times maxBatchSizeBytes, and the value add() returns is
\* needsFlush() at the size reached with the added record.
C17_NeedsFlushThreshold ==
    /\ needsFlush(This) <=>
           5 * estimatedSizeBytes(This) >= 4 * config.maxBatchSizeBytes
    /\ loopStep.kind = "added" =>
          /\ loopStep.needsFlush =
                 needsFlush([This EXCEPT !.currentSizeBytes = loopStep.bytes])
          /\ loopStep.needsFlush <=>
                 5 * loopStep.bytes >= 4 * config.maxBatchSizeBytes

\* add() has returned true at a size between 80% and 100% of
\* maxBatchSizeBytes, and the record is still buffered
C17_Witness ==
    /\ loopStep.kind = "added"
    /\ loopStep.needsFlush
    /\ loopStep.bytes < config.maxBatchSizeBytes
    /\ estimatedSizeBytes(This) = loopStep.bytes

\* C18: needsFlush() turns true only in a step that adds a record, turns
\* false only in a step that starts a delivery, and is false right after
\* every flush start: between two flush starts it changes at most once.
C18_NeedsFlushFlipsOnce ==
    [][/\ (~needsFlush(This) /\ needsFlush(This)') =>
              Len(added') = Len(added) + 1
       /\ (needsFlush(This) /\ ~needsFlush(This)') =>
              Len(deliverCalls') = Len(deliverCalls) + 1
       /\ Len(deliverCalls') > Len(deliverCalls) => ~needsFlush(This)'
       /\ estimatedSizeBytes(This)' < estimatedSizeBytes(This) =>
              Len(deliverCalls') > Len(deliverCalls)]_vars

\* the first add() since the last flush start stayed below the boundary and
\* the second one crossed it
C18_Witness ==
    /\ needsFlush(This)
    /\ size(This) = 2
    /\ ~AtEightyPercent(estimateLogSize(batch[1]))

\* C19: while the interval timer is active (stop() not yet called) and
\* deliver calls complete, every record passed to add() is eventually handed
\* to deliver, also after flush() calls that returned at once because a
\* delivery was in flight.
C19_EventuallyDelivered ==
    \A k \in 1..MaxRecords :
        (Len(added) >= k) ~>
            (timer = Null \/ Len(Concat(deliverCalls)) >= k)

\* C19 (amended): while the interval timer is active (stop() not yet called
\* and the process still running) and deliver calls complete, every record
\* passed to add() is eventually handed to deliver, also after flush() calls
\* that returned at once because a delivery was in flight.
C19_DeliveredWhileRunning ==
    \A k \in 1..MaxRecords :
        (Len(added) >= k) ~>
            (timer = Null \/ ~running \/ Len(Concat(deliverCalls)) >= k)

\* an owner's flush() found a record buffered and a delivery in flight and
\* was dropped; with the timer still active a tick has delivered the record
C19_Witness ==
    /\ timer # Null
    /\ running
    /\ \E n \in DOMAIN calls :
          /\ calls[n].op = "flush"
          /\ calls[n].found.flushing
          /\ Len(calls[n].found.batch) >= 1
          /\ calls[n].own = 0
          /\ \E d \in DOMAIN deliverCalls :
                /\ d > calls[n].found.nDeliver
                /\ deliverCalls[d].by = "timer"
                /\ calls[n].found.batch[1] \in Range(deliverCalls[d].batch)

\* C20: every deliver call that begins after a stop() call was started by an
\* explicit flush() or stop(), never by the timer; once stop() has been
\* called no interval is left.
C20_NoTimerFlushAfterStop ==
    \A n \in DOMAIN calls :
        calls[n].op = "stop" =>
            /\ timer = Null
            /\ intervals = {}
            /\ \A d \in DOMAIN deliverCalls :
                  d > calls[n].found.nDeliver =>
                      deliverCalls[d].by \in {"owner.flush", "owner.stop"}

\* C21: a flush() that finds flushing true, from the owner or the timer,
\* leaves buffer, size counter, latch, timer and deliver calls as they were,
\* and the step in which the delivery in flight settles starts no delivery
\* and leaves the buffer alone.
C21_FlushWhileFlushingIsNoOp ==
    [][/\ (/\ flushing
           /\ \/ TimerTick
              \/ \E n \in {1, FlushBurst} : OwnerFlush(n))
          => UNCHANGED <<batch, currentSizeBytes, flushing, timer, intervals,
                         deliverCalls>>
       /\ (\E d \in InFlight : deliverCalls'[d].status # "inflight")
          => /\ Len(deliverCalls') = Len(deliverCalls)
             /\ UNCHANGED <<batch, currentSizeBytes, timer, intervals>>
             /\ ~flushing']_vars

\* an owner's flush() was turned down with a record buffered; the delivery
\* then in flight has settled, and the record is still in the buffer
C21_Witness ==
    \E n \in DOMAIN calls :
        /\ calls[n].op = "flush"
        /\ calls[n].found.flushing
        /\ calls[n].own = 0
        /\ InFlight = {}
        /\ Len(deliverCalls) = calls[n].found.nDeliver
        /\ batch = calls[n].found.batch
        /\ batch # <<>>

\* C22: a step that adds a record appends exactly that record at the tail
\* of the buffer and its estimate to the size counter, and leaves the latch,
\* the timer and every deliver call, in flight or not, as they were.
C22_AddOnlyAppends ==
    [][Len(added') > Len(added) =>
          /\ Len(added') = Len(added) + 1
          /\ batch' = Append(batch, added'[Len(added')])
          /\ currentSizeBytes' =
                 currentSizeBytes + estimateLogSize(added'[Len(added')])
          /\ UNCHANGED <<flushing, timer, intervals, deliverCalls>>]_vars

\* add() has brought the buffer to the byte threshold and no delivery was
\* ever started
C22_Witness ==
    /\ batch # <<>>
    /\ batch[Len(batch)] = added[Len(added)]
    /\ needsFlush(This)
    /\ deliverCalls = <<>>

\* C23: as long as a deliver call has not completed, flushing is true, that
\* call is the last one started, whatever flush(), tick or stop() came
\* since, and the buffer holds every record added since it started; a step
\* that does not settle it keeps all this so.
C23_StuckDeliverStarvesFlushes ==
    /\ [](\A d \in InFlight :
             /\ flushing
             /\ d = Len(deliverCalls)
             /\ batch = SubSeq(added, Len(Concat(deliverCalls)) + 1,
                               Len(added)))
    /\ [][\A d \in InFlight :
             deliverCalls'[d].status = "inflight" =>
                 /\ flushing'
                 /\ Len(deliverCalls') = Len(deliverCalls)
                 /\ Len(batch') >= Len(batch)]_vars

\* a deliver call is still in flight; since it started a record was added
\* and a stop() came and returned at once
C23_Witness ==
    \E d \in InFlight :
        \E n \in DOMAIN calls :
            /\ calls[n].op = "stop"
            /\ calls[n].found.nDeliver = d
            /\ calls[n].found.flushing
            /\ calls[n].own = 0
            /\ Len(batch) >= 1

\* C24: a single awaited flush() that finds records buffered and no delivery
\* in flight starts exactly one delivery, of the whole buffer, which is the
\* records added since the previous flush start in add() order; when it has
\* returned and nothing was added since, size() and estimatedSizeBytes()
\* are 0.
C24_FlushDeliversWholeBuffer ==
    \A n \in DOMAIN calls :
        LET c == calls[n]
        IN  (/\ c.op = "flush"
             /\ c.n = 1
             /\ ~c.found.flushing
             /\ Len(c.found.batch) >= 1)
            => /\ c.own = c.found.nDeliver + 1
               /\ deliverCalls[c.own].batch = c.found.batch
               /\ deliverCalls[c.own].batch =
                      SubSeq(added,
                             Len(Concat(SubSeq(deliverCalls, 1,
                                               c.found.nDeliver))) + 1,
                             c.found.nAdded)
               /\ (Returned(c) /\ NoAddSince(c)) =>
                      /\ size(This) = 0
                      /\ estimatedSizeBytes(This) = 0

\* two add/flush cycles: each flush() has delivered the record added since
\* the one before, and both have returned
C24_Witness ==
    /\ Len(calls) = 2
    /\ \A n \in DOMAIN calls :
          /\ calls[n].op = "flush"
          /\ calls[n].n = 1
          /\ calls[n].own = n
          /\ Returned(calls[n])
    /\ size(This) = 0

\* C25: the estimate of every record added is at least 1, and a step that
\* adds a record without starting a delivery leaves estimatedSizeBytes()
\* strictly greater than it was.
C25_SizeStrictlyIncreases ==
    /\ [](\A i \in DOMAIN added : estimateLogSize(added[i]) >= 1)
    /\ [][(/\ Len(added') > Len(added)
           /\ Len(deliverCalls') = Len(deliverCalls))
          => estimatedSizeBytes(This)' > estimatedSizeBytes(This)]_vars

\* two records were added since the last flush start, the larger one first
C25_Witness ==
    /\ size(This) = 2
    /\ estimateLogSize(batch[2]) < estimateLogSize(batch[1])
    /\ estimatedSizeBytes(This) > estimateLogSize(batch[1])

\* C26: a batch whose sending failed was reported to onError once when the
\* hook is configured (and not at all otherwise), a batch that was sent was
\* not reported, no record of a failed batch is in the buffer or in another
\* deliver call, and when a sending fails the record loop is reading, or
\* back to reading, afterwards.
C26_FailureReportedOnce ==
    /\ [](\A d \in DOMAIN deliverCalls :
             /\ deliverCalls[d].sent = "failed" =>
                   /\ deliverCalls[d].reported =
                          IF "onError" \in DOMAIN config THEN 1 ELSE 0
                   /\ Range(deliverCalls[d].batch) \cap Range(batch) = {}
                   /\ \A e \in DOMAIN deliverCalls \ {d} :
                         Range(deliverCalls[d].batch)
                             \cap Range(deliverCalls[e].batch) = {}
             /\ deliverCalls[d].sent # "failed" =>
                   deliverCalls[d].reported = 0)
    /\ [][\A d \in InFlight :
             (deliverCalls'[d].sent = "failed"
              /\ loopPc \in {"read", "awaitFlush"})
             => loopPc' = "read"]_vars

\* a sending started by the loop's flush() failed and was reported to
\* onError, and the loop has added a record since
C26_Witness ==
    \E d \in DOMAIN deliverCalls :
        /\ deliverCalls[d].by = "loop.flush"
        /\ deliverCalls[d].sent = "failed"
        /\ deliverCalls[d].reported = 1
        /\ Len(added) > Len(Concat(SubSeq(deliverCalls, 1, d)))
        /\ loopStep.kind = "added"

\* C27: build() rejects exactly when one of domain, apiKey, applicationName
\* and subsystemName is missing (left out or empty) or the domain is not one
\* of the seven valid ones; after a rejection there is no timer and no
\* accumulator, and no record is ever read, added or delivered.
C27_ConfigErrorsFailFast ==
    /\ loopPc # "unbuilt" =>
          (loopPc = "rejected" <=>
              \/ \E k \in {"domain", "apiKey", "applicationName",
                           "subsystemName"} :
                    k \notin DOMAIN config \/ config[k] = ""
              \/ config.domain \notin
                     {"us1", "us2", "eu1", "eu2", "ap1", "ap2", "ap3"})
    /\ loopPc = "rejected" =>
          /\ timer = Null
          /\ intervals = {}
          /\ consumed = 0
          /\ added = <<>>
          /\ batch = <<>>
          /\ deliverCalls = <<>>

\* build() has rejected options that name all four required ones, with a
\* domain that is not in the list
C27_Witness ==
    /\ loopPc = "rejected"
    /\ \A k \in Required : k \in DOMAIN config /\ config[k] # ""
    /\ config.domain = "US1"

\* C28: a loop turn on a string that JSON.parse rejects adds nothing, starts
\* nothing and leaves the loop reading; a turn on any other line adds the
\* record of that line at the tail, so the records added are in the order
\* of their lines.
C28_MalformedLineSkipped ==
    /\ [](\A i, j \in DOMAIN added :
             i < j => added[i].timestamp < added[j].timestamp)
    /\ [][consumed' = consumed + 1 =>
             IF loopStep'.malformed
             THEN /\ loopStep'.kind = "skipped"
                  /\ loopPc' = "read"
                  /\ UNCHANGED <<added, batch, currentSizeBytes, flushing,
                                 timer, intervals, deliverCalls, calls>>
             ELSE /\ loopStep'.kind = "added"
                  /\ Len(added') = Len(added) + 1
                  /\ added'[Len(added')].timestamp = consumed']_vars

\* the first line was skipped as malformed, and the loop has added the
\* records of two later lines
C28_Witness ==
    /\ loopStep.kind = "added"
    /\ Len(added) = 2
    /\ added[1].timestamp = 2
    /\ added[2].timestamp = 3

\* C29: the severity transformLog returns is an integer in 1..6: a tenth of
\* the level for the levels 10, 20, 30, 40, 50 and 60, and 3 for every other
\* level, a missing one included.
C29_SeverityMapping ==
    testResult # NoLog =>
        /\ testResult.severity.type = "number"
        /\ testResult.severity.value \in 1..6
        /\ testResult.severity.value =
               IF testLog.level.type = "number"
                  /\ testLog.level.value \in {10, 20, 30, 40, 50, 60}
               THEN testLog.level.value \div 10
               ELSE 3

\* C30: the text transformLog returns is a string: the empty one for a
\* missing or null msg, the msg itself for a string, and the JSON text for
\* an object.
C30_TextIsString ==
    testResult # NoLog =>
        /\ testResult.text \in STRING
        /\ testLog.msg.type \in {"undefined", "null"} => testResult.text = ""
        /\ testLog.msg.type = "string" =>
               testResult.text = testLog.msg.value
        /\ testLog.msg = Obj(<<>>) => testResult.text = "{}"
        /\ testLog.msg = NestedMsg =>
               testResult.text = "{\"key\":\"value\",\"nested\":{\"data\":123}}"

\* transformLog has returned for the test's object msg
C30_Witness ==
    /\ testLog # NoLog
    /\ testLog.msg = NestedMsg
    /\ testResult # NoLog
    /\ Len(testResult.text) = 37

\* C31: sendLogs classifies a response by its status only: a response with a
\* status in 200..299 yields success with that status whatever its body, and a
\* response with any other status yields a failure, an HttpError, that carries
\* the response's status code and body.
C31_ClassifiedByStatus ==
    (testOutcome # NoLog /\ testExchange.kind = "response") =>
        IF testExchange.statusCode \in 200..299
        THEN testOutcome =
                 Return([success |-> TRUE,
                         statusCode |-> testExchange.statusCode])
        ELSE /\ testOutcome.type = "throw"
             /\ testOutcome.name = "HttpError"
             /\ testOutcome.statusCode = testExchange.statusCode
             /\ testOutcome.body = testExchange.body

\* a 300 response with a body has been answered with an HttpError
C31_Witness ==
    /\ testOutcome # NoLog
    /\ testExchange.kind = "response"
    /\ testExchange.statusCode = 300
    /\ testExchange.body = "Internal Server Error"
    /\ testOutcome.message = "HTTP 300: Internal Server Error"

\* the number of places that hold the record r: the buffer and the batches
\* handed to deliver
Places(r) ==
    Cardinality({d \in DOMAIN deliverCalls : r \in Range(deliverCalls[d].batch)})
        + (IF r \in Range(batch) THEN 1 ELSE 0)

\* C32: conservation: every record ever passed to add() is in exactly one
\* place, the current buffer or exactly one batch handed to deliver, and the
\* records added are the handed-off batches one after the other followed by
\* the current buffer.
C32_Conservation ==
    /\ added = Concat(deliverCalls) \o batch
    /\ \A i \in DOMAIN added : Places(added[i]) = 1

\* one record has been handed to deliver and the next one is in the buffer
C32_Witness ==
    /\ Len(added) = 2
    /\ Len(deliverCalls) = 1
    /\ deliverCalls[1].batch = <<added[1]>>
    /\ batch = <<added[2]>>

\* C33: flushing is true exactly while a deliver call is in flight: it
\* becomes true only in a step that swaps the buffer and starts a deliver
\* call, it is false after every step in which a deliver call completes,
\* resolved or rejected, and it is false whenever no delivery is pending.
C33_LatchWhileInFlight ==
    /\ [](flushing <=> InFlight # {})
    /\ [][/\ (~flushing /\ flushing') =>
                /\ batch # <<>>
                /\ batch' = <<>>
                /\ Len(deliverCalls') = Len(deliverCalls) + 1
                /\ deliverCalls'[Len(deliverCalls')].status = "inflight"
          /\ (\E d \in InFlight : deliverCalls'[d].status # "inflight") =>
                ~flushing']_vars

\* one delivery was rejected and the latch cleared, the next was started and
\* resolved and the latch is clear again
C33_Witness ==
    /\ Len(deliverCalls) = 2
    /\ deliverCalls[1].status = "rejected"
    /\ deliverCalls[2].status = "resolved"
    /\ ~flushing

\* C34: stop() may be called twice, as the transport does from its finally
\* block and its close hook: the second call finds the timer handle null and
\* no interval active and leaves it so, calls deliver exactly when the buffer
\* is non-empty and no flush is in flight, hands over the buffer only, none of
\* whose records was handed to deliver before, and no record is ever handed
\* to deliver twice.
C34_SecondStopIsSafe ==
    /\ [](NoDuplicates(Concat(deliverCalls)))
    /\ [][(/\ Len(calls') = Len(calls) + 1
           /\ calls'[Len(calls')].op = "stop"
           /\ \E n \in DOMAIN calls : calls[n].op = "stop")
          => LET own == calls'[Len(calls')].own
             IN  /\ timer = Null
                 /\ intervals = {}
                 /\ timer' = Null
                 /\ intervals' = {}
                 /\ own # 0 <=> (batch # <<>> /\ ~flushing)
                 /\ own # 0 =>
                       /\ own = Len(deliverCalls) + 1
                       /\ deliverCalls'[own].batch = batch
                       /\ Range(batch) \cap Range(Concat(deliverCalls)) = {}
                 /\ own = 0 => deliverCalls' = deliverCalls]_vars

\* the finally block and the close hook have both called stop(); the first
\* call met a flush in flight and the second has handed the buffer to deliver
C34_Witness ==
    /\ Len(calls) >= 2
    /\ calls[Len(calls)].op = "stop"
    /\ calls[Len(calls)].own # 0
    /\ calls[Len(calls) - 1].op = "stop"
    /\ calls[Len(calls) - 1].own = 0
    /\ calls[Len(calls) - 1].found.flushing

\* stop() has been called and has returned
StopReturned == \E n \in DOMAIN calls : calls[n].op = "stop" /\ Returned(calls[n])

\* the records added after the call of a stop() that has returned
AddedAfterStop ==
    {i \in DOMAIN added :
        \E n \in DOMAIN calls :
            calls[n].op = "stop" /\ Returned(calls[n]) /\ i > calls[n].found.nAdded}

\* C35: add() and flush() after stop() has returned work as before: add()
\* appends the record to the buffer and starts no delivery, and the timer
\* stays cancelled.  A record added after stop() is handed to deliver only by
\* a flush() or stop() that the owner calls after adding it; as long as there
\* is no such call the record is in the buffer.
C35_UseAfterStop ==
    /\ [](\A i \in AddedAfterStop :
             /\ \A d \in DOMAIN deliverCalls :
                   added[i] \in Range(deliverCalls[d].batch) =>
                       /\ deliverCalls[d].by \in {"owner.flush", "owner.stop"}
                       /\ \E n \in DOMAIN calls :
                             /\ calls[n].own = d
                             /\ calls[n].found.nAdded >= i
             /\ (\A n \in DOMAIN calls :
                    calls[n].op \in {"flush", "stop"} =>
                        calls[n].found.nAdded < i) =>
                   added[i] \in Range(batch))
    /\ [][(StopReturned /\ Len(added') = Len(added) + 1) =>
             /\ batch' = Append(batch, added'[Len(added')])
             /\ size(This') = size(This) + 1
             /\ deliverCalls' = deliverCalls
             /\ timer' = Null
             /\ intervals' = {}]_vars
    /\ [][(StopReturned /\ Len(calls') = Len(calls) + 1
             /\ calls'[Len(calls')].op = "flush") =>
             /\ timer' = Null
             /\ intervals' = {}
             /\ calls'[Len(calls')].own # 0 <=> (batch # <<>> /\ ~flushing)]_vars

\* C36: when the user's onError callback throws while a failed delivery is
\* reported, the flush handler rejects and the accumulator's flush() contains
\* it: nothing escapes flush() or stop(), the latch is cleared in that step,
\* buffer and timer are left alone, and the loop, the finally block or the
\* close hook that awaited the flush goes on as after any other delivery.
C36_OnErrorThrowContained ==
    /\ [](\A d \in DOMAIN deliverCalls :
             deliverCalls[d].status = "rejected" =>
                 /\ ~deliverCalls[d].escaped
                 /\ deliverCalls[d].sent = "failed"
                 /\ deliverCalls[d].reported = 1)
    /\ [][\A d \in InFlight :
             deliverCalls'[d].status = "rejected" =>
                 /\ ~flushing'
                 /\ batch' = batch
                 /\ timer' = timer
                 /\ intervals' = intervals
                 /\ (loopPc = "awaitFlush" /\ Awaited("loop") = d) =>
                       loopPc' = "read"
                 /\ (loopPc = "awaitStop" /\ Awaited("loop") = d) =>
                       loopPc' = "done"
                 /\ (closePc = "awaitStop" /\ Awaited("close") = d) =>
                       closePc' = "done"]_vars

\* onError threw for a delivery that the loop's flush() had started; the loop
\* has added the next record and the timer has handed it to deliver
C36_Witness ==
    /\ Len(deliverCalls) = 2
    /\ deliverCalls[1].by = "loop.flush"
    /\ deliverCalls[1].status = "rejected"
    /\ deliverCalls[2].by = "timer"
    /\ Len(added) = 3
    /\ added[3] \in Range(deliverCalls[2].batch)

\* C37: while a delivery started by the loop's own flush() is in flight the
\* loop waits for it: the buffer is empty, every record added so far has
\* been handed to deliver, and no record is added.  A step that adds a record
\* while a delivery is in flight happens only when the timer started that
\* delivery.
C37_LoopAwaitsItsFlush ==
    /\ [](\A d \in InFlight :
             deliverCalls[d].by = "loop.flush" =>
                 /\ loopPc = "awaitFlush"
                 /\ Awaited("loop") = d
                 /\ batch = <<>>
                 /\ added = Concat(deliverCalls))
    /\ [][Len(added') > Len(added) =>
             \A d \in InFlight : deliverCalls[d].by = "timer"]_vars

\* the timer has started a delivery of the first record, and the loop's
\* flush() has started a delivery of the next two that is in flight
C37_Witness ==
    /\ Len(deliverCalls) = 2
    /\ deliverCalls[1].by = "timer"
    /\ deliverCalls[2].by = "loop.flush"
    /\ deliverCalls[2].status = "inflight"
    /\ Len(deliverCalls[1].batch) = 1
    /\ Len(deliverCalls[2].batch) = 2
    /\ loopPc = "awaitFlush"

\* C38: when reading from the source throws, the finally block has called
\* stop() before the error leaves the loop: the timer handle is null and no
\* interval is active, and if that stop() found records in the buffer and no
\* flush in flight it has handed exactly those records to deliver, and the
\* error propagates only when that delivery has completed.
C38_StopOnStreamError ==
    loopPc \in {"awaitStopThrew", "threw"} =>
        /\ timer = Null
        /\ intervals = {}
        /\ \E n \in DOMAIN calls :
              LET c == calls[n]
              IN  /\ c.op = "stop"
                  /\ c.by = "loop"
                  /\ c.found.nAdded = Len(added)
                  /\ (c.found.batch # <<>> /\ ~c.found.flushing) =>
                        /\ c.own # 0
                        /\ deliverCalls[c.own].by = "loop.stop"
                        /\ deliverCalls[c.own].batch = c.found.batch
                  /\ loopPc = "threw" <=> Returned(c)

\* reading threw after the first record, and the stop() of the finally block
\* has delivered that record before the error propagated
C38_Witness ==
    /\ loopPc = "threw"
    /\ consumed = 1
    /\ Len(added) = 1
    /\ Len(deliverCalls) = 1
    /\ deliverCalls[1].by = "loop.stop"
    /\ deliverCalls[1].batch = added
    /\ deliverCalls[1].status = "resolved"

\* stop() has been called
StopCalled == \E n \in DOMAIN calls : calls[n].op = "stop"

\* C39: the accumulator has at most one active interval timer: one is
\* started at construction, this.timer is null or the handle of the one
\* active interval, startTimer() called in any state leaves exactly one
\* active interval, only a stop() call leaves the accumulator without an
\* active interval, and once stop() has been called the handle is null, no
\* interval is active and no later step sets a timer again.
C39_OneTimer ==
    /\ [](/\ Cardinality(intervals) <= 1
          /\ intervals = IF timer = Null THEN {} ELSE {timer}
          /\ ~StopCalled => timer # Null
          /\ LET w == startTimer(This)
             IN  w.timer # Null /\ w.intervals = {w.timer})
    /\ [][/\ (intervals # {} /\ intervals' = {}) =>
                /\ Len(calls') = Len(calls) + 1
                /\ calls'[Len(calls')].op = "stop"
          /\ StopCalled' => (timer' = Null /\ intervals' = {})]_vars

====
